---------------------------- MODULE Spec2Model ----------------------------
(***************************************************************************)
(* Persistence core of the financial forecasting and risk analytics        *)
(* engine: the seven-table schema (src/src/models.py), the engine, the     *)
(* session factory and the scoped session (src/src/database.py) and the    *)
(* maintenance operations (src/src/db_init.py).                            *)
(***************************************************************************)
EXTENDS Integers, Sequences, FiniteSets, TLC

VARIABLES
    db,          \* the relational store: table name -> set of committed rows
    nextId,      \* uuid.uuid4(): the next fresh primary key
    checked_out, \* QueuePool: connections currently checked out
    pc,          \* per process: position in the operation it runs
    session,     \* per process: the Session (pending, flushed, conn)
    ret,         \* per process: the values returned ({}: nothing or None)
    exc,         \* per process: exception raised / propagated to the caller
    hist         \* ghost: what the last operation did

vars == <<db, nextId, checked_out, pc, session, ret, exc, hist>>

----------------------------------------------------------------------------
(* Bounds of the model *)

MaxIds == 5        \* primary keys handed out in one behaviour
NumProcs == 2      \* concurrent units of work / invocations
MaxRows == 2       \* rows added to sessions in one behaviour
MaxInputLen == 3   \* length of the text typed at the reset prompt

Procs == 1 .. NumProcs

None == "None"

----------------------------------------------------------------------------
(* Schema: src/src/models.py *)

AllTables ==
    {"users", "data_uploads", "timeseries_data", "trained_models",
     "forecasts", "risk_metrics", "kpi_reports"}

\* Column(..., ForeignKey("<parent>.id", ondelete="CASCADE"), nullable=False)
ForeignKeys ==
    [data_uploads    |-> [col |-> "user_id",        parent |-> "users"],
     timeseries_data |-> [col |-> "data_upload_id", parent |-> "data_uploads"],
     trained_models  |-> [col |-> "user_id",        parent |-> "users"],
     forecasts       |-> [col |-> "model_id",       parent |-> "trained_models"],
     risk_metrics    |-> [col |-> "model_id",       parent |-> "trained_models"],
     kpi_reports     |-> [col |-> "model_id",       parent |-> "trained_models"]]

ChildTables == DOMAIN ForeignKeys

\* relationship(..., cascade="all, delete-orphan"): child tables the ORM
\* deletes itself when the parent object is deleted through a session.
Relationships ==
    {<<"users", "data_uploads">>, <<"users", "trained_models">>,
     <<"data_uploads", "timeseries_data">>, <<"trained_models", "forecasts">>}

\* TrainedModel.version = Column(Integer, default=1, nullable=False)
VersionDefault == 1

\* The bootstrap principal of create_admin_user
AdminUsername == "admin"
AdminEmail == "admin@financialanalytics.local"

Usernames == {AdminUsername, "alice"}
Emails == {AdminEmail, "alice@example.com"}
ModelNames == {"sales"}

----------------------------------------------------------------------------
(* Connection manager: src/src/database.py, src/config/settings.py *)

\* Settings.database_url: the default is a SQLite file.
database_url == "sqlite:///./forecasting.db"

IsSqlite == database_url = "sqlite:///./forecasting.db"

\* A faulty variant of set_sqlite_pragma: the connect listener does nothing.
set_sqlite_pragma_off == FALSE

\* set_sqlite_pragma: PRAGMA foreign_keys=ON on every new SQLite connection.
\* The value is the connection's foreign_keys setting (SQLite's default: off).
set_sqlite_pragma == IF IsSqlite THEN TRUE ELSE FALSE

\* Foreign keys are enforced on SQLite only under the pragma, elsewhere always.
ForeignKeysEnforced == IF IsSqlite THEN set_sqlite_pragma ELSE TRUE

pool_size == 10
max_overflow == 20

----------------------------------------------------------------------------
(* The store's semantics for the declared schema *)

Ids(t) == IF t \in DOMAIN db THEN {r.id : r \in db[t]} ELSE {}

\* Rows of table c that reference a row among the <<table, id>> pairs of S
\* along the edges E (pairs <<parent table, child table>>).
Referencing(d, S, E) ==
    UNION {{<<e[2], r.id>> :
              r \in {x \in d[e[2]] : <<e[1], x[ForeignKeys[e[2]].col]>> \in S}}
           : e \in {f \in E : f[2] \in DOMAIN d}}

RECURSIVE Closure(_, _, _)
Closure(d, S, E) ==
    LET T == S \cup Referencing(d, S, E)
    IN IF T = S THEN S ELSE Closure(d, T, E)

FKEdges == {<<ForeignKeys[c].parent, c>> : c \in ChildTables}

\* DELETE of row id of table t.  Through the ORM the relationships' children
\* are deleted first; the store then applies ON DELETE CASCADE when foreign
\* keys are enforced on the connection.
Doomed(d, t, id, viaORM) ==
    LET S1 == IF viaORM THEN Closure(d, {<<t, id>>}, Relationships)
              ELSE {<<t, id>>}
    IN IF ForeignKeysEnforced THEN Closure(d, S1, FKEdges) ELSE S1

DeleteFrom(d, t, id, viaORM) ==
    LET S == Doomed(d, t, id, viaORM)
    IN [c \in DOMAIN d |-> {r \in d[c] : <<c, r.id>> \notin S}]

\* A faulty variant of UniqueOk: only the username is unique.
UniqueOkUsernameOnly(d, t, row) ==
    t = "users" => \A r \in d[t] : r.username # row.username

\* unique=True on User.username and User.email
UniqueOk(d, t, row) ==
    t = "users" =>
        \A r \in d[t] : r.username # row.username /\ r.email # row.email

\* ForeignKey(...) on the child's column, checked when foreign keys are enforced
ForeignKeyOk(d, t, row) ==
    (t \in ChildTables /\ ForeignKeysEnforced) =>
        /\ ForeignKeys[t].parent \in DOMAIN d
        /\ \E p \in d[ForeignKeys[t].parent] : p.id = row[ForeignKeys[t].col]

PrimaryKeyOk(d, t, row) == \A r \in d[t] : r.id # row.id

\* An INSERT is accepted iff the table exists and no constraint is violated.
InsertOk(d, t, row) ==
    /\ t \in DOMAIN d
    /\ PrimaryKeyOk(d, t, row)
    /\ UniqueOk(d, t, row)
    /\ ForeignKeyOk(d, t, row)

InsertInto(d, t, row) == [d EXCEPT ![t] = @ \cup {row}]

\* Rows a caller may build for table t, with primary key id.
RowsFor(t, id) ==
    IF t = "users" THEN
        {[id |-> id, username |-> u, email |-> e] : u \in Usernames, e \in Emails}
    ELSE IF t = "trained_models" THEN
        {[id |-> id, user_id |-> p, model_name |-> n, version |-> VersionDefault] :
            p \in 1 .. MaxIds, n \in ModelNames}
    ELSE IF t = "data_uploads" THEN {[id |-> id, user_id |-> p] : p \in 1 .. MaxIds}
    ELSE IF t = "timeseries_data" THEN
        {[id |-> id, data_upload_id |-> p] : p \in 1 .. MaxIds}
    ELSE {[id |-> id, model_id |-> p] : p \in 1 .. MaxIds}

EmptyStore == [t \in AllTables |-> {}]

\* User(username="admin", email="admin@financialanalytics.local", ...)
AdminRow(id) == [id |-> id, username |-> AdminUsername, email |-> AdminEmail]

NoSession == [pending |-> <<>>, flushed |-> <<>>, conn |-> FALSE]

IdleProcs ==
    /\ pc = [p \in Procs |-> "idle"]
    /\ session = [p \in Procs |-> NoSession]
    /\ ret = [p \in Procs |-> {}]
    /\ exc = [p \in Procs |-> None]
    /\ checked_out = 0

----------------------------------------------------------------------------
(* Committed units of work of the callers of the persistence interface:    *)
(* one INSERT or one DELETE, committed.                                    *)

InsertCommitted(t) ==
    /\ nextId <= MaxIds
    /\ \E row \in RowsFor(t, nextId) :
         IF InsertOk(db, t, row)
         THEN /\ db' = InsertInto(db, t, row)
              /\ hist' = [op |-> "insert", table |-> t, ok |-> TRUE, removed |-> {}]
         ELSE /\ db' = db
              /\ hist' = [op |-> "insert", table |-> t, ok |-> FALSE, removed |-> {}]
    /\ nextId' = nextId + 1
    /\ UNCHANGED <<checked_out, pc, session, ret, exc>>

DeleteCommitted(t) ==
    /\ t \in DOMAIN db
    /\ \E r \in db[t], viaORM \in BOOLEAN :
         /\ db' = DeleteFrom(db, t, r.id, viaORM)
         /\ hist' = [op |-> "delete", table |-> t, ok |-> TRUE,
                     removed |-> Doomed(db, t, r.id, viaORM)]
    /\ UNCHANGED <<nextId, checked_out, pc, session, ret, exc>>

InitStore ==
    /\ db = EmptyStore
    /\ nextId = 1
    /\ hist = [op |-> "none", table |-> None, ok |-> TRUE, removed |-> {}]
    /\ IdleProcs

NextStore ==
    \/ \E t \in AllTables : InsertCommitted(t)
    \/ \E t \in AllTables : DeleteCommitted(t)

SpecStore == InitStore /\ [][NextStore]_vars

----------------------------------------------------------------------------
(* C1: no child row references a parent row that does not exist, for each  *)
(* of the six foreign keys, after any sequence of committed inserts and    *)
(* deletes; a delete leaves no row that descended from the deleted row.    *)
NoOrphans ==
    /\ \A c \in ChildTables \cap DOMAIN db :
         \A r \in db[c] : r[ForeignKeys[c].col] \in Ids(ForeignKeys[c].parent)
    /\ hist.op = "delete" =>
         \A c \in ChildTables \cap DOMAIN db :
           \A r \in db[c] :
             <<ForeignKeys[c].parent, r[ForeignKeys[c].col]>> \notin hist.removed

\* A user was deleted together with rows of its child and grandchild tables.
UserDeleteCascaded ==
    /\ hist.op = "delete" /\ hist.table = "users"
    /\ \E x \in hist.removed : x[1] \in {"data_uploads", "trained_models"}
    /\ \E x \in hist.removed :
         x[1] \in {"timeseries_data", "forecasts", "risk_metrics", "kpi_reports"}


----------------------------------------------------------------------------
(* Schema lifecycle: src/src/database.py init_db / drop_db,                *)
(* src/src/db_init.py setup_database / reset_database                      *)

\* A faulty variant of create_all: every table is created anew.
create_all_anew(d) == [t \in AllTables |-> {}]

\* A faulty variant of confirmed: any answer that starts with "y" is taken.
confirmed_prefix(confirm) == confirm # <<>> /\ confirm[1] \in {"y", "Y"}

\* Base.metadata.create_all(bind=engine): checkfirst, so only the tables that
\* are absent are created and the present ones keep their rows.
create_all(d) == [t \in AllTables |-> IF t \in DOMAIN d THEN d[t] ELSE {}]

\* Base.metadata.drop_all(bind=engine): no table is left.
drop_all(d) == [t \in {} |-> {}]

init_db(d) == create_all(d)

drop_db(d) == drop_all(d)

\* Text typed at the prompt: sequences of characters.
Chars == {"y", "e", "s", "Y", "E", "S", "n", "o"}
Inputs == UNION {[1 .. n -> Chars] : n \in 0 .. MaxInputLen}

LowerChar(c) ==
    CASE c = "Y" -> "y" [] c = "E" -> "e" [] c = "S" -> "s" [] OTHER -> c

\* str.lower()
lower(s) == [i \in DOMAIN s |-> LowerChar(s[i])]

Yes == <<"y", "e", "s">>

\* if confirm.lower() == "yes":
confirmed(confirm) == lower(confirm) = Yes

\* setup_database(): try init_db(), return True; except: return False.
\* fails: the store cannot be reached, so init_db raises before creating.
setup_database ==
    \E fails \in BOOLEAN :
      /\ db' = IF fails THEN db ELSE init_db(db)
      /\ hist' = [op |-> "setup", confirm |-> <<>>, fails |-> fails,
                  ret |-> ~fails, raised |-> None,
                  drop_db |-> 0, init_db |-> 1, before |-> db]
      /\ UNCHANGED <<nextId, checked_out, pc, session, ret, exc>>

\* reset_database(): confirm = input(...); on "yes" drop_db(), init_db(),
\* return True (False when either raises); otherwise return False.
reset_database ==
    \E confirm \in Inputs :
      /\ IF confirmed(confirm)
         THEN \E fails \in {"none", "drop_db", "init_db"} :
              /\ db' = CASE fails = "none" -> init_db(drop_db(db))
                         [] fails = "drop_db" -> db
                         [] fails = "init_db" -> drop_db(db)
              /\ hist' = [op |-> "reset", confirm |-> confirm, fails |-> fails,
                          ret |-> (fails = "none"), raised |-> None,
                          drop_db |-> 1,
                          init_db |-> IF fails = "drop_db" THEN 0 ELSE 1,
                          before |-> db]
         ELSE /\ db' = db
              /\ hist' = [op |-> "reset", confirm |-> confirm, fails |-> "none",
                          ret |-> FALSE, raised |-> None,
                          drop_db |-> 0, init_db |-> 0, before |-> db]
      /\ UNCHANGED <<nextId, checked_out, pc, session, ret, exc>>

\* if __name__ == "__main__": one command per run of the script; the script
\* ends before the next command is given.
CliRunning == hist.op \in {"setup", "reset"}

cli_exit ==
    /\ CliRunning
    /\ hist' = [op |-> "none"]
    /\ UNCHANGED <<db, nextId, checked_out, pc, session, ret, exc>>

\* The store before the first `setup`: the database file holds no table.
InitSchema ==
    /\ db = drop_all(EmptyStore)
    /\ nextId = 1
    /\ hist = [op |-> "none"]
    /\ IdleProcs

NextSchema ==
    \/ ~CliRunning /\ setup_database
    \/ ~CliRunning /\ reset_database
    \/ ~CliRunning /\ InsertCommitted("users")
    \/ cli_exit

SpecSchema == InitSchema /\ [][NextSchema]_vars

Rows(d) == UNION {d[t] : t \in DOMAIN d}

NoDestruction ==
    /\ hist.drop_db = 0 /\ hist.init_db = 0
    /\ hist.ret = FALSE /\ hist.raised = None
    /\ db = hist.before

\* C2 as stated: every input other than the exact token "yes" leaves the
\* store as it was: no drop_db, no init_db, the result is False.
GateExactToken ==
    (hist.op = "reset" /\ hist.confirm # Yes) => NoDestruction

\* C2 as amended: every input whose lower-cased form is not "yes" leaves the
\* store as it was: no drop_db, no init_db, the result is False.
GateLowerCased ==
    (hist.op = "reset" /\ lower(hist.confirm) # Yes) => NoDestruction

\* A reset was refused on a store that holds tables and rows.
ResetRefused ==
    /\ hist.op = "reset" /\ lower(hist.confirm) # Yes
    /\ Len(hist.confirm) = 3 /\ hist.confirm[1] = "y"
    /\ DOMAIN db = AllTables /\ Rows(db) # {}

\* C8: setup_database on an initialized store raises nothing, leaves the
\* table set and every row as they were, and returns True when the store
\* can be reached.
SetupIdempotent ==
    (hist.op = "setup" /\ DOMAIN hist.before = AllTables) =>
        /\ hist.raised = None
        /\ db = hist.before
        /\ (~hist.fails => hist.ret = TRUE)

\* setup_database has run, successfully, on an initialized store with rows.
SetupRepeated ==
    /\ hist.op = "setup" /\ DOMAIN hist.before = AllTables
    /\ ~hist.fails /\ Rows(hist.before) # {}


----------------------------------------------------------------------------
(* Scoped session: src/src/database.py SessionLocal, get_db.               *)
(* A process runs one unit of work on the session get_db yields.           *)

\* sessionmaker(autocommit=False, ...): written rows stay in the session's
\* transaction until commit().  A faulty variant: autocommit=True.
autocommit_on == TRUE

autocommit == FALSE

\* Exceptions a unit of work may raise: subclasses of Exception, and one that
\* is only a BaseException (not caught by `except Exception`).
Exceptions == {"ValueError", "IntegrityError"}
BaseExceptions == {"KeyboardInterrupt"}

\* Rows a unit of work adds: the primary key is left to the column default.
NewRows ==
    {[t |-> "users", row |-> [username |-> u, email |-> e]] :
        u \in Usernames, e \in Emails}
    \cup {[t |-> "trained_models",
           row |-> [user_id |-> p, model_name |-> n, version |-> VersionDefault]] :
        p \in Ids("users"), n \in ModelNames}

\* uuid.uuid4(): a value no other call returns; here the k-th key that
\* process p draws, kept apart from the keys 1 .. MaxIds of the other callers.
uuid4(p, k) == MaxIds + p * (MaxRows + 1) + k

\* default=lambda: str(uuid.uuid4()), evaluated when the row is INSERTed
Stamp(seq, n) ==
    [i \in 1 .. Len(seq) |->
        [t |-> seq[i].t, row |-> [id |-> n + i - 1] @@ seq[i].row]]

\* The INSERTs of a flush, in order; the first one the store rejects stops it.
RECURSIVE InsertAll(_, _, _)
InsertAll(d, seq, i) ==
    IF i > Len(seq) THEN [ok |-> TRUE, d |-> d, bad |-> 0]
    ELSE IF InsertOk(d, seq[i].t, seq[i].row)
         THEN InsertAll(InsertInto(d, seq[i].t, seq[i].row), seq, i + 1)
         ELSE [ok |-> FALSE, d |-> d, bad |-> i]

Range(seq) == {seq[i] : i \in DOMAIN seq}

RowIds(seq) == {seq[i].row.id : i \in DOMAIN seq}

AllIds(d) == UNION {{r.id : r \in d[t]} : t \in DOMAIN d}

\* pool checkout on the session's first use of the store
Checkout(p) ==
    IF session[p].conn THEN checked_out ELSE checked_out + 1

Checkin(p) ==
    IF session[p].conn THEN checked_out - 1 ELSE checked_out

CanCheckout(p) == session[p].conn \/ checked_out < pool_size + max_overflow

Log(p, e) == [hist EXCEPT !.log[p] = Append(@, e)]

\* db = SessionLocal(); yield db
get_db_enter(p) ==
    /\ pc[p] = "idle"
    /\ pc' = [pc EXCEPT ![p] = "yielded"]
    /\ session' = [session EXCEPT ![p] = NoSession]
    /\ UNCHANGED <<db, nextId, checked_out, ret, exc, hist>>

\* db.add(obj)
uow_add(p) ==
    /\ pc[p] = "yielded"
    /\ p \notin hist.ended
    /\ hist.added < MaxRows
    /\ \E x \in NewRows :
         session' = [session EXCEPT ![p].pending = Append(@, x)]
    /\ hist' = [hist EXCEPT !.added = @ + 1]
    /\ UNCHANGED <<db, nextId, checked_out, pc, ret, exc>>

\* The store rejected an INSERT: IntegrityError is raised in the unit of work.
FlushFailed(p, all, res) ==
    /\ exc' = [exc EXCEPT ![p] = "IntegrityError"]
    /\ pc' = [pc EXCEPT ![p] = "except"]
    /\ session' = [session EXCEPT ![p] = [pending |-> <<>>, flushed |-> <<>>,
                                          conn |-> TRUE]]
    /\ hist' = [hist EXCEPT
                  !.raised[p] = "IntegrityError",
                  !.failed[p] = RowIds(all),
                  !.conflict[p] =
                      IF ~UniqueOk(db, all[res.bad].t, all[res.bad].row)
                      THEN {all[res.bad].row} ELSE {}]
    /\ db' = db

\* db.flush(): INSERT the pending rows inside the session's transaction.
uow_flush(p) ==
    /\ pc[p] = "yielded"
    /\ p \notin hist.ended
    /\ session[p].pending # <<>>
    /\ CanCheckout(p)
    /\ checked_out' = Checkout(p)
    /\ LET all == session[p].flushed \o Stamp(session[p].pending, uuid4(p, Len(session[p].flushed)))
           res == InsertAll(db, all, 1)
       IN IF res.ok
          THEN /\ db' = IF autocommit THEN res.d ELSE db
               /\ session' = [session EXCEPT ![p] =
                     [pending |-> <<>>, conn |-> TRUE,
                      flushed |-> IF autocommit THEN <<>> ELSE all]]
               /\ hist' = [hist EXCEPT !.wrote[p] = @ \cup Range(all)]
               /\ UNCHANGED <<pc, exc>>
          ELSE FlushFailed(p, all, res)
    /\ UNCHANGED <<nextId, ret>>

\* db.commit(): flush, then COMMIT; the connection goes back to the pool.
uow_commit(p) ==
    /\ pc[p] = "yielded"
    /\ p \notin hist.ended
    /\ CanCheckout(p)
    /\ LET all == session[p].flushed \o Stamp(session[p].pending, uuid4(p, Len(session[p].flushed)))
           res == InsertAll(db, all, 1)
       IN IF res.ok
          THEN /\ db' = res.d
               /\ session' = [session EXCEPT ![p] = NoSession]
               /\ checked_out' = Checkin(p)
               /\ hist' = [hist EXCEPT !.wrote[p] = @ \cup Range(all),
                                       !.committed = @ \cup RowIds(all),
                                       !.ended = @ \cup {p}]
               /\ UNCHANGED <<pc, exc>>
          ELSE /\ FlushFailed(p, all, res)
               /\ checked_out' = Checkout(p)
    /\ UNCHANGED <<nextId, ret>>

\* The unit of work raises e.
uow_raise(p) ==
    /\ pc[p] = "yielded"
    /\ \E e \in {"ValueError"} \cup BaseExceptions :
         /\ exc' = [exc EXCEPT ![p] = e]
         /\ pc' = [pc EXCEPT ![p] = IF e \in Exceptions THEN "except" ELSE "finally"]
         /\ hist' = [hist EXCEPT !.raised[p] = e]
    /\ UNCHANGED <<db, nextId, checked_out, session, ret>>

\* The unit of work returns.
uow_return(p) ==
    /\ pc[p] = "yielded"
    /\ pc' = [pc EXCEPT ![p] = "finally"]
    /\ UNCHANGED <<db, nextId, checked_out, session, ret, exc, hist>>

\* A faulty variant of get_db_except: the error is logged and swallowed.
get_db_except_swallow(p) ==
    /\ pc[p] = "except"
    /\ session' = [session EXCEPT ![p] = NoSession]
    /\ checked_out' = Checkin(p)
    /\ hist' = Log(p, "rollback")
    /\ exc' = [exc EXCEPT ![p] = None]
    /\ pc' = [pc EXCEPT ![p] = "finally"]
    /\ UNCHANGED <<db, nextId, ret>>

\* except Exception as e: db.rollback(); logger.error(...); raise
get_db_except(p) ==
    /\ pc[p] = "except"
    /\ session' = [session EXCEPT ![p] = NoSession]
    /\ checked_out' = Checkin(p)
    /\ hist' = Log(p, "rollback")
    /\ exc' = exc
    /\ pc' = [pc EXCEPT ![p] = "finally"]
    /\ UNCHANGED <<db, nextId, ret>>

\* finally: db.close()
get_db_finally(p) ==
    /\ pc[p] = "finally"
    /\ session' = [session EXCEPT ![p] = NoSession]
    /\ checked_out' = Checkin(p)
    /\ hist' = Log(p, "close")
    /\ pc' = [pc EXCEPT ![p] = "done"]
    /\ UNCHANGED <<db, nextId, ret, exc>>

\* The store after `setup` and `create-admin`.
InitSession ==
    /\ db = InsertInto(EmptyStore, "users", AdminRow(1))
    /\ nextId = 1
    /\ hist = [committed |-> {1},
               added |-> 0,
               ended |-> {},
               wrote |-> [p \in Procs |-> {}],
               failed |-> [p \in Procs |-> {}],
               conflict |-> [p \in Procs |-> {}],
               raised |-> [p \in Procs |-> None],
               log |-> [p \in Procs |-> <<>>]]
    /\ IdleProcs

NextSession ==
    \E p \in Procs :
      \/ get_db_enter(p)
      \/ uow_add(p)
      \/ uow_flush(p)
      \/ uow_commit(p)
      \/ uow_raise(p)
      \/ uow_return(p)
      \/ get_db_except(p)
      \/ get_db_finally(p)

SpecSession == InitSession /\ [][NextSession]_vars

Finished(p) == pc[p] = "done"

\* C3: every unit of work ends with the session closed and its connection
\* back in the pool; an error raised in it is rolled back before the close
\* and reaches the caller unchanged; with no unit of work in flight no
\* connection is checked out.
ScopedLifecycle ==
    /\ \A p \in Procs :
         Finished(p) =>
           /\ hist.log[p] # <<>>
           /\ hist.log[p][Len(hist.log[p])] = "close"
           /\ ~session[p].conn
           /\ exc[p] = hist.raised[p]
           /\ hist.raised[p] \in Exceptions => hist.log[p] = <<"rollback", "close">>
    /\ checked_out = Cardinality({p \in Procs : session[p].conn})
    /\ (\A p \in Procs : pc[p] \in {"idle", "done"}) => checked_out = 0

\* One unit of work failed while holding a connection with rows written,
\* another one ended normally.
ErrorPathTaken ==
    \E p, q \in Procs :
      /\ Finished(p) /\ hist.raised[p] = "ValueError" /\ hist.wrote[p] # {}
      /\ Finished(q) /\ hist.raised[q] = None /\ q \in hist.ended

\* C4: the committed store holds exactly the rows of committed transactions:
\* a row a session wrote is in it only once that session has committed, a
\* commit applies all rows of the unit of work, and a unit of work that ended
\* without committing left none of its rows.
SessionAtomicity ==
    /\ AllIds(db) = hist.committed
    /\ \A p \in Procs :
         (Finished(p) /\ p \notin hist.ended) =>
             \A x \in hist.wrote[p] : x.row.id \notin AllIds(db)
    /\ \A p \in hist.ended :
         \A x \in hist.wrote[p] : x.row \in db[x.t]

\* A unit of work wrote a TrainedModel row and raised before committing; a
\* separate session is open and the table holds no row.
UncommittedModelGone ==
    \E p, q \in Procs :
      /\ Finished(p) /\ hist.raised[p] # None
      /\ \E x \in hist.wrote[p] : x.t = "trained_models"
      /\ pc[q] = "yielded" /\ session[q] = NoSession
      /\ db["trained_models"] = {}

\* C7: no two User rows share a username or an email; a unit of work whose
\* INSERT repeats the username or the email of an existing row fails as a
\* whole, and the table still holds exactly one row with that value.
UserUniqueness ==
    /\ \A r1, r2 \in db["users"] :
         r1 # r2 => r1.username # r2.username /\ r1.email # r2.email
    /\ \A p \in Procs :
         \A c \in hist.conflict[p] :
           LET sameName == {r \in db["users"] : r.username = c.username}
               sameMail == {r \in db["users"] : r.email = c.email}
           IN /\ hist.raised[p] = "IntegrityError"
              /\ hist.failed[p] \cap AllIds(db) = {}
              /\ sameName # {} \/ sameMail # {}
              /\ Cardinality(sameName) <= 1
              /\ Cardinality(sameMail) <= 1

\* A unit of work of two rows failed as a whole on a repeated email alone.
DuplicateEmailRejected ==
    \E p \in Procs :
      /\ \E c \in hist.conflict[p] :
           c.email = AdminEmail /\ c.username # AdminUsername
      /\ Cardinality(hist.failed[p]) = 2
      /\ Finished(p)

----------------------------------------------------------------------------
(* Bootstrap seed: src/src/db_init.py create_admin_user.                   *)
(* Process p is one invocation.                                            *)

Admins(d) == {r \in d["users"] : r.username = AdminUsername}

\* A user other than "admin" holds the e-mail address of the bootstrap user.
AdminEmailTaken(d) ==
    \E r \in d["users"] : r.email = AdminEmail /\ r.username # AdminUsername

\* A faulty variant of create_admin_query: the existence check is skipped.
create_admin_query_unchecked(p) ==
    /\ pc[p] = "idle"
    /\ CanCheckout(p)
    /\ checked_out' = Checkout(p)
    /\ session' = [session EXCEPT ![p] = [NoSession EXCEPT !.conn = TRUE]]
    /\ hist' = [hist EXCEPT !.found[p] = Admins(db)]
    /\ pc' = [pc EXCEPT ![p] = "ca_create"]
    /\ UNCHANGED <<db, nextId, exc, ret>>

\* db = SessionLocal()
\* existing_admin = db.query(User).filter(User.username == "admin").first()
\* if existing_admin: return existing_admin
create_admin_query(p) ==
    /\ pc[p] = "idle"
    /\ CanCheckout(p)
    /\ checked_out' = Checkout(p)
    /\ session' = [session EXCEPT ![p] = [NoSession EXCEPT !.conn = TRUE]]
    /\ hist' = [hist EXCEPT !.found[p] = Admins(db)]
    /\ IF Admins(db) # {}
       THEN /\ ret' = [ret EXCEPT ![p] = {CHOOSE r \in Admins(db) : TRUE}]
            /\ pc' = [pc EXCEPT ![p] = "ca_finally"]
       ELSE /\ ret' = ret
            /\ pc' = [pc EXCEPT ![p] = "ca_create"]
    /\ UNCHANGED <<db, nextId, exc>>

\* admin_user = User(username="admin", ..., hashed_password=pwd_context.hash(..))
\* db.add(admin_user); db.commit(); return admin_user
\* fails: the hashing capability or the store raises before the INSERT.
create_admin_insert(p) ==
    /\ pc[p] = "ca_create"
    /\ \E fails \in BOOLEAN :
         LET row == AdminRow(uuid4(p, 0))
         IN IF ~fails /\ InsertOk(db, "users", row)
            THEN /\ db' = InsertInto(db, "users", row)
                 /\ ret' = [ret EXCEPT ![p] = {row}]
                 /\ session' = [session EXCEPT ![p] = NoSession]
                 /\ checked_out' = Checkin(p)
                 /\ pc' = [pc EXCEPT ![p] = "ca_finally"]
                 /\ hist' = [hist EXCEPT !.created[p] = TRUE]
                 /\ exc' = exc
            ELSE /\ exc' = [exc EXCEPT ![p] =
                               IF fails THEN "RuntimeError" ELSE "IntegrityError"]
                 /\ pc' = [pc EXCEPT ![p] = "ca_except"]
                 /\ hist' = [hist EXCEPT !.fault[p] = fails]
                 /\ UNCHANGED <<db, ret, session, checked_out>>
    /\ UNCHANGED nextId

\* except Exception as e: db.rollback(); logger.error(...); return None
create_admin_except(p) ==
    /\ pc[p] = "ca_except"
    /\ session' = [session EXCEPT ![p] = NoSession]
    /\ checked_out' = Checkin(p)
    /\ exc' = [exc EXCEPT ![p] = None]
    /\ ret' = [ret EXCEPT ![p] = {}]
    /\ pc' = [pc EXCEPT ![p] = "ca_finally"]
    /\ UNCHANGED <<db, nextId, hist>>

\* finally: db.close()
create_admin_finally(p) ==
    /\ pc[p] = "ca_finally"
    /\ session' = [session EXCEPT ![p] = NoSession]
    /\ checked_out' = Checkin(p)
    /\ pc' = [pc EXCEPT ![p] = "done"]
    /\ hist' = [hist EXCEPT !.final[p] = db]
    /\ UNCHANGED <<db, nextId, ret, exc>>

create_admin_user(p) ==
    \/ create_admin_query(p)
    \/ create_admin_insert(p)
    \/ create_admin_except(p)
    \/ create_admin_finally(p)

\* User tables an initialized store may hold before the bootstrap runs.
UserTables ==
    {U \in SUBSET (RowsFor("users", 1) \cup RowsFor("users", 2)) :
        /\ \A r1, r2 \in U :
             r1 # r2 => /\ r1.id # r2.id
                        /\ r1.username # r2.username
                        /\ r1.email # r2.email
        /\ {r.id : r \in U} = 1 .. Cardinality(U)}

InitBootstrapHist ==
    hist = [found |-> [p \in Procs |-> {}],
            created |-> [p \in Procs |-> FALSE],
            fault |-> [p \in Procs |-> FALSE],
            final |-> [p \in Procs |-> EmptyStore],
            initial |-> db]

\* Sequential calls on an initialized store.
InitBootstrapSeq ==
    /\ \E U \in UserTables : db = [EmptyStore EXCEPT !["users"] = U]
    /\ nextId = 1
    /\ InitBootstrapHist
    /\ IdleProcs

NoneRunning(p) == \A q \in Procs \ {p} : pc[q] \in {"idle", "done"}

NextBootstrapSeq ==
    \E p \in Procs : NoneRunning(p) /\ create_admin_user(p)

SpecBootstrapSeq == InitBootstrapSeq /\ [][NextBootstrapSeq]_vars

\* Concurrent calls on a store with no admin row.
InitBootstrap ==
    /\ \E U \in {V \in UserTables : \A r \in V : r.username # AdminUsername} :
         db = [EmptyStore EXCEPT !["users"] = U]
    /\ nextId = 1
    /\ InitBootstrapHist
    /\ IdleProcs

NextBootstrap == \E p \in Procs : create_admin_user(p)

SpecBootstrap == InitBootstrap /\ [][NextBootstrap]_vars

AllFinished == \A p \in Procs : Finished(p)

NoFault == \A p \in Procs : ~hist.fault[p]

ReturnedIds(p) == {r.id : r \in ret[p]}

AdminIds(d) == {r.id : r \in Admins(d)}

\* C6 as stated: after sequential calls every call has returned the same
\* user and the table holds exactly one row with username "admin".
BootstrapAlwaysOneAdmin ==
    (AllFinished /\ NoFault) =>
        /\ Cardinality(Admins(db)) = 1
        /\ \A p \in Procs : ret[p] # {} /\ ReturnedIds(p) = AdminIds(db)

\* C6 as amended: the table never holds more than one "admin" row; a call
\* that returns a user returns that row; a call that finds the row creates
\* nothing and leaves the table as it was; and unless a step fails or another
\* user holds the admin e-mail address (then every call returns None and
\* creates nothing) every call returns the same user and the row exists.
BootstrapIdempotent ==
    /\ Cardinality(Admins(db)) <= 1
    /\ \A p \in Procs :
         Finished(p) =>
           /\ ret[p] # {} => ReturnedIds(p) = AdminIds(db)
           /\ hist.found[p] # {} =>
                /\ ~hist.created[p]
                /\ ret[p] = hist.found[p]
                /\ hist.found[p] \subseteq hist.final[p]["users"]
           /\ (~hist.fault[p] /\ ~AdminEmailTaken(hist.initial)) => ret[p] # {}
           /\ (AdminEmailTaken(hist.initial) /\ hist.found[p] = {}) =>
                (ret[p] = {} /\ ~hist.created[p])
    /\ (\E p \in Procs : hist.created[p]) \/ db = hist.initial

\* The first call created the admin and the second call returned it.
BootstrapTwice ==
    \E p, q \in Procs :
      /\ Finished(p) /\ hist.created[p]
      /\ Finished(q) /\ hist.found[q] # {} /\ ret[q] = ret[p]
      /\ hist.initial["users"] # {}

\* C10: under concurrent invocations on a store with no admin row the table
\* never holds more than one "admin" row, and once all have ended (no step
\* failed, the admin e-mail address was free) exactly one row exists and every
\* invocation, the losers of the race included, returned that user.
BootstrapRaceShortCircuits ==
    /\ Cardinality(Admins(db)) <= 1
    /\ (AllFinished /\ NoFault /\ ~AdminEmailTaken(hist.initial)) =>
          /\ Cardinality(Admins(db)) = 1
          /\ \A p \in Procs : ret[p] # {} /\ ReturnedIds(p) = AdminIds(db)

----------------------------------------------------------------------------
(* Connectivity probe: src/src/db_init.py check_database_connection        *)

\* Errors of the probe: the store cannot be reached; the statement is refused.
ProbeErrors == {"OperationalError", "ObjectNotExecutableError"}

\* with engine.connect() as connection:
probe_connect(p) ==
    /\ pc[p] = "idle"
    /\ \E ok \in BOOLEAN :
         IF ok /\ CanCheckout(p)
         THEN /\ checked_out' = Checkout(p)
              /\ session' = [session EXCEPT ![p].conn = TRUE]
              /\ pc' = [pc EXCEPT ![p] = "pr_execute"]
              /\ hist' = [hist EXCEPT !.acquired[p] = TRUE]
              /\ exc' = exc
         ELSE /\ exc' = [exc EXCEPT ![p] = "OperationalError"]
              /\ pc' = [pc EXCEPT ![p] = "pr_except"]
              /\ hist' = [hist EXCEPT !.raised[p] = "OperationalError"]
              /\ UNCHANGED <<checked_out, session>>
    /\ UNCHANGED <<db, nextId, ret>>

\* result = connection.execute("SELECT 1")
probe_execute(p) ==
    /\ pc[p] = "pr_execute"
    /\ \/ /\ hist' = [hist EXCEPT !.executed[p] = TRUE]
          /\ exc' = exc
       \/ \E e \in ProbeErrors :
            /\ exc' = [exc EXCEPT ![p] = e]
            /\ hist' = [hist EXCEPT !.raised[p] = e]
    /\ pc' = [pc EXCEPT ![p] = "pr_exit"]
    /\ UNCHANGED <<db, nextId, checked_out, session, ret>>

\* A faulty variant of probe_exit: the connection is closed on success only.
probe_exit_leak(p) ==
    /\ pc[p] = "pr_exit"
    /\ IF exc[p] = None
       THEN /\ ret' = [ret EXCEPT ![p] = {TRUE}]
            /\ pc' = [pc EXCEPT ![p] = "done"]
            /\ checked_out' = Checkin(p)
            /\ session' = [session EXCEPT ![p] = NoSession]
       ELSE /\ ret' = ret
            /\ pc' = [pc EXCEPT ![p] = "pr_except"]
            /\ UNCHANGED <<checked_out, session>>
    /\ UNCHANGED <<db, nextId, exc, hist>>

\* leaving the with block, by `return True` or by the error: the connection
\* is closed, that is returned to the pool
probe_exit(p) ==
    /\ pc[p] = "pr_exit"
    /\ checked_out' = Checkin(p)
    /\ session' = [session EXCEPT ![p] = NoSession]
    /\ IF exc[p] = None
       THEN /\ ret' = [ret EXCEPT ![p] = {TRUE}]
            /\ pc' = [pc EXCEPT ![p] = "done"]
       ELSE /\ ret' = ret
            /\ pc' = [pc EXCEPT ![p] = "pr_except"]
    /\ UNCHANGED <<db, nextId, exc, hist>>

\* except Exception as e: logger.error(...); return False
probe_except(p) ==
    /\ pc[p] = "pr_except"
    /\ exc' = [exc EXCEPT ![p] = None]
    /\ ret' = [ret EXCEPT ![p] = {FALSE}]
    /\ pc' = [pc EXCEPT ![p] = "done"]
    /\ UNCHANGED <<db, nextId, checked_out, session, hist>>

check_database_connection(p) ==
    \/ probe_connect(p)
    \/ probe_execute(p)
    \/ probe_exit(p)
    \/ probe_except(p)

InitProbe ==
    /\ db = EmptyStore
    /\ nextId = 1
    /\ hist = [acquired |-> [p \in Procs |-> FALSE],
               executed |-> [p \in Procs |-> FALSE],
               raised |-> [p \in Procs |-> None]]
    /\ IdleProcs

NextProbe == \E p \in Procs : check_database_connection(p)

SpecProbe == InitProbe /\ [][NextProbe]_vars

\* C9: the probe returns True exactly when the connection was acquired and
\* the query executed, False exactly when a step raised; no error reaches the
\* caller and the connection is back in the pool on both outcomes.
ProbeTotal ==
    /\ \A p \in Procs :
         Finished(p) =>
           /\ ret[p] \in {{TRUE}, {FALSE}}
           /\ ret[p] = {TRUE} <=> (hist.acquired[p] /\ hist.executed[p])
           /\ ret[p] = {FALSE} <=> hist.raised[p] # None
           /\ exc[p] = None
           /\ ~session[p].conn
    /\ checked_out = Cardinality({p \in Procs : session[p].conn})
    /\ (\A p \in Procs : pc[p] \in {"idle", "done"}) => checked_out = 0

\* One probe failed at the query with the connection acquired, one succeeded.
ProbeBothOutcomes ==
    \E p, q \in Procs :
      /\ Finished(p) /\ ret[p] = {FALSE} /\ hist.acquired[p]
      /\ Finished(q) /\ ret[q] = {TRUE}

----------------------------------------------------------------------------
\* C5: no two TrainedModel rows of the same (user_id, model_name) carry the
\* same version.
VersionsDistinct ==
    \A m1, m2 \in db["trained_models"] :
      (m1 # m2 /\ m1.user_id = m2.user_id /\ m1.model_name = m2.model_name)
          => m1.version # m2.version

=============================================================================
